---------------------------- MODULE Spec2Model ----------------------------
(***************************************************************************)
(* Model of the VOD proxy connection/session manager of Dispatcharr        *)
(* (apps/proxy/vod_proxy/multi_worker_connection_manager.py).              *)
(*                                                                         *)
(* The shared store (Redis) is modelled key by key; every Redis command is *)
(* one atomic step and a handler is the sequence of its commands, so that  *)
(* handlers of different workers interleave between commands exactly as    *)
(* the processes do.  Header values are sequences of one-character strings *)
(* so that parsing and formatting are computed, not assumed.               *)
(***************************************************************************)
EXTENDS Integers, Sequences, FiniteSets, TLC

VARIABLES
    conn,       \* vod_persistent_connection:<sid>  -> hash of ConnectionState
    lock,       \* vod_connection_lock:<sid>        -> key present
    sess,       \* vod_session:<sid>                -> key present
    counter,    \* profile_connections:<pid>        -> integer
    now,        \* time.time()
    upstream,   \* the provider: whether it sends Content-Length on full responses
    th,         \* the threads: requests (and their cleanup timers), sweepers
    gh,         \* history (ghost) counters, read by the properties only
    ip,         \* the in-process manager: its connection objects and tracking keys
    fn          \* harness applying one pure function to one input

vars == <<conn, lock, sess, counter, now, upstream, th, gh, ip, fn>>

(***************************************************************************)
(* Strings: Python str as a sequence of one-character strings.             *)
(***************************************************************************)
DigitChars == <<"0", "1", "2", "3", "4", "5", "6", "7", "8", "9">>

IsDigit(c) == \E i \in 1..10 : DigitChars[i] = c

DigitVal(c) == (CHOOSE i \in 1..10 : DigitChars[i] = c) - 1

RECURSIVE NatToStr(_)
NatToStr(n) ==
    IF n < 10 THEN <<DigitChars[n + 1]>>
    ELSE NatToStr(n \div 10) \o <<DigitChars[(n % 10) + 1]>>

\* str(n) / f"{n}" of a Python int
IntToStr(n) == IF n < 0 THEN <<"-">> \o NatToStr(0 - n) ELSE NatToStr(n)

RECURSIVE DigitsVal(_, _)
DigitsVal(s, acc) ==
    IF s = <<>> THEN acc ELSE DigitsVal(Tail(s), 10 * acc + DigitVal(Head(s)))

AllDigits(s) == s # <<>> /\ \A i \in 1..Len(s) : IsDigit(s[i])

\* int(s): an optional sign and decimal digits; anything else is a ValueError
PyInt(s) ==
    LET signed == s # <<>> /\ Head(s) \in {"-", "+"}
        body   == IF signed THEN Tail(s) ELSE s
    IN  IF ~AllDigits(body) THEN [ok |-> FALSE, val |-> 0]
        ELSE [ok |-> TRUE,
              val |-> IF signed /\ Head(s) = "-" THEN 0 - DigitsVal(body, 0)
                      ELSE DigitsVal(body, 0)]

BytesEq == <<"b", "y", "t", "e", "s", "=">>

StartsWith(s, p) == Len(s) >= Len(p) /\ SubSeq(s, 1, Len(p)) = p

\* p in s
Contains(s, p) ==
    \E i \in 0..(Len(s) - Len(p)) : SubSeq(s, i + 1, i + Len(p)) = p

\* s.replace(p, ''): every non-overlapping occurrence, left to right
RECURSIVE RemoveAll(_, _)
RemoveAll(s, p) ==
    IF Len(s) < Len(p) THEN s
    ELSE IF SubSeq(s, 1, Len(p)) = p THEN RemoveAll(SubSeq(s, Len(p) + 1, Len(s)), p)
    ELSE <<Head(s)>> \o RemoveAll(Tail(s), p)

HasDash(s) == \E i \in 1..Len(s) : s[i] = "-"

FirstDash(s) == CHOOSE i \in 1..Len(s) : s[i] = "-" /\ \A j \in 1..(i - 1) : s[j] # "-"

\* s.split('-', 1)
SplitDash(s) ==
    LET i == FirstDash(s)
    IN  [start_str |-> SubSeq(s, 1, i - 1), end_str |-> SubSeq(s, i + 1, Len(s))]

\* Python None where a str is expected (no str is this sequence: its one
\* element is not a single character)
NONE == <<"None">>

(***************************************************************************)
(* Range Negotiator: RedisBackedVODConnection._validate_range_header       *)
(***************************************************************************)
ClampEnd_Mut(end_byte, content_length) ==
    IF end_byte > content_length THEN content_length - 1 ELSE end_byte

\* lines 263-264: if end_byte >= content_length: end_byte = content_length - 1
ClampEnd(end_byte, content_length) ==
    IF end_byte >= content_length THEN content_length - 1 ELSE end_byte

\* lines 240-276; a ValueError of int() returns the header as it came
_validate_range_header(range_header, content_length) ==
    IF range_header = <<>> \/ ~StartsWith(range_header, BytesEq) THEN range_header
    ELSE LET range_part == RemoveAll(range_header, BytesEq)
         IN  IF ~HasDash(range_part) THEN range_header
             ELSE LET sp == SplitDash(range_part)
                      ps == PyInt(sp.start_str)
                      pe == PyInt(sp.end_str)
                      start_byte == IF sp.start_str # <<>> THEN ps.val ELSE 0
                      end_byte ==
                          IF sp.end_str # <<>> THEN ClampEnd(pe.val, content_length)
                          ELSE content_length - 1
                  IN  IF sp.start_str # <<>> /\ ~ps.ok THEN range_header
                      ELSE IF sp.start_str # <<>> /\ start_byte >= content_length
                           THEN NONE
                      ELSE IF sp.end_str # <<>> /\ ~pe.ok THEN range_header
                      ELSE IF start_byte > end_byte THEN NONE
                      ELSE BytesEq \o IntToStr(start_byte) \o <<"-">> \o IntToStr(end_byte)

\* the header "bytes=<start>-<end>"; an absent bound is the empty string
RangeHdr(start_str, end_str) == BytesEq \o start_str \o <<"-">> \o end_str

(***************************************************************************)
(* Bounds of the model                                                     *)
(***************************************************************************)
MaxReq == 2          \* requests handled in one behaviour
MaxSweepers == 2     \* workers running cleanup_stale_persistent_connections
MaxSessions == 2     \* session ids in use
MaxTicks == 1        \* times the clock advances past the max-age threshold
LimitedStreams == 1  \* max_streams of the limited profile
UpstreamLen == 2048  \* total length of the upstream resource

\* max_age_seconds of cleanup_stale_persistent_connections
MaxAge == 1800

\* EXPIRE of the ConnectionState hash in _save_connection_state
ConnectionTtl == 3600

\* session_ttl: EXPIRE of vod_session:<sid>
SessionTtl == 1800

Reqs == 1..MaxReq
Sweepers == (MaxReq + 1)..(MaxReq + MaxSweepers)
Sessions == 1..MaxSessions
\* the threading.Timer thread of the delayed cleanup of each session
TimerThreads == (MaxReq + MaxSweepers + 1)..(MaxReq + MaxSweepers + MaxSessions)
Threads == Reqs \cup Sweepers \cup TimerThreads

\* M3UAccountProfile rows: profile 1 is limited, profile 2 has max_streams = 0
Profiles == {1, 2}
max_streams(p) == IF p = 1 THEN LimitedStreams ELSE 0

\* Range headers clients send (<<>>: no Range header)
NoRange == <<>>
FirstKiB == RangeHdr(<<"0">>, IntToStr(1023))
SecondKiB == RangeHdr(IntToStr(1024), IntToStr(2047))
Malformed == BytesEq \o <<"a", "-", "b">>
Beyond == RangeHdr(IntToStr(2 * UpstreamLen), <<>>)
Overlong == RangeHdr(IntToStr(1024), IntToStr(2 * UpstreamLen))

\* response.url after redirects: the provider picks the node
FinalUrls == {"cdn1", "cdn2"}

(***************************************************************************)
(* SerializableConnectionState as stored in the hash; live = key present.  *)
(* '' stands for None in content_length and final_url (to_dict/from_dict). *)
(***************************************************************************)
NoState ==
    [live |-> FALSE, content_length |-> <<>>, final_url |-> "", m3u_profile_id |-> 0,
     last_activity |-> 0, request_count |-> 0, active_streams |-> 0]

\* SerializableConnectionState.__init__ followed by _save_connection_state
NewState(profile_id, t) ==
    [live |-> TRUE, content_length |-> <<>>, final_url |-> "", m3u_profile_id |-> profile_id,
     last_activity |-> t, request_count |-> 0, active_streams |-> 0]

\* the response to the client; upstream is the status the provider answered,
\* body the chunks the streaming generator has yielded
NoResponse ==
    [status |-> 0, content_range |-> <<>>, content_length |-> <<>>, accept_ranges |-> FALSE,
     upstream |-> 0, body |-> <<>>, location |-> <<>>]

\* PersistentVODConnection.__init__ (connection_manager.py lines 24-35) and
\* its place in VODConnectionManager._persistent_connections: present, the
\* object is in the dict; lock, the thread that holds self.lock (0: free);
\* timer, cleanup_timer is pending; session, requests.Session is open;
\* response, the request whose response is current_response (0: None)
NoPersistent ==
    [present |-> FALSE, lock |-> 0, timer |-> FALSE, session |-> FALSE, response |-> 0]

\* the vod_session:<sid> hash as the in-process manager writes it
NoSessionRecord == [exists |-> FALSE, connection_counted |-> FALSE, profile_id |-> 0]

\* the in-process manager before any request: pconn, the connection objects;
\* srec, vod_session:<sid>; track, the m3u_profile_id of the connection
\* tracking hash of the session's client (0: no such key)
NoInProcess ==
    [pconn |-> [s \in Sessions |-> NoPersistent],
     srec |-> [s \in Sessions |-> NoSessionRecord],
     track |-> [s \in Sessions |-> 0]]

IdleThread ==
    [pc |-> "idle", sid |-> 0, prof |-> 0, hdr |-> <<>>, st |-> NoState, up |-> 0,
     out |-> NoResponse, mode |-> "", keys |-> {}, t0 |-> 0, revived |-> FALSE,
     query |-> <<>>, data |-> NoSessionRecord]

\* acq, rel: INCRs and DECRs of the profile counter made for a session;
\* resolved: fetches that followed redirects for the present ConnectionState
ZeroGhost ==
    [acq |-> [s \in Sessions |-> 0], rel |-> [s \in Sessions |-> 0],
     resolved |-> [s \in Sessions |-> 0]]

\* the harness before a function is applied
NoFn == [name |-> "none", start_str |-> <<>>, end_str |-> <<>>, len |-> 0, res |-> <<>>]

InitStore ==
    /\ conn = [s \in Sessions |-> NoState]
    /\ lock = [s \in Sessions |-> FALSE]
    /\ sess = [s \in Sessions |-> FALSE]
    /\ counter = [p \in Profiles |-> 0]
    /\ now = 0
    /\ th = [t \in Threads |-> IdleThread]
    /\ gh = ZeroGhost
    /\ ip = NoInProcess

Init ==
    /\ InitStore
    /\ upstream = [sends_length |-> TRUE]
    /\ fn = NoFn

(***************************************************************************)
(* The upstream provider (environment): a resource of UpstreamLen bytes    *)
(* served as HTTP prescribes.  status 0 stands for a failed fetch          *)
(* (connection error, or raise_for_status on 4xx/5xx such as 416).         *)
(***************************************************************************)
UpstreamAnswer(sent) ==
    IF sent # <<>> /\ StartsWith(sent, BytesEq) /\ HasDash(RemoveAll(sent, BytesEq))
    THEN LET sp == SplitDash(RemoveAll(sent, BytesEq))
             ok == /\ (AllDigits(sp.start_str) \/ sp.start_str = <<>>)
                   /\ (AllDigits(sp.end_str) \/ sp.end_str = <<>>)
                   /\ ~(sp.start_str = <<>> /\ sp.end_str = <<>>)
             e  == IF sp.end_str = <<>> THEN UpstreamLen - 1
                   ELSE IF PyInt(sp.end_str).val >= UpstreamLen THEN UpstreamLen - 1
                   ELSE PyInt(sp.end_str).val
             f  == IF sp.start_str = <<>>
                   THEN (IF PyInt(sp.end_str).val >= UpstreamLen THEN 0
                         ELSE UpstreamLen - PyInt(sp.end_str).val)
                   ELSE PyInt(sp.start_str).val
             l  == IF sp.start_str = <<>> THEN UpstreamLen - 1 ELSE e
         IN  IF ~ok THEN [status |-> 200, first |-> 0, last |-> UpstreamLen - 1]
             ELSE IF f > l THEN [status |-> 0, first |-> 0, last |-> 0 - 1]
             ELSE [status |-> 206, first |-> f, last |-> l]
    ELSE [status |-> 200, first |-> 0, last |-> UpstreamLen - 1]

\* the Content-Length header of the answer; '' when the provider sends none
UpstreamLength(ans) ==
    IF ans.status = 200 /\ ~upstream.sends_length THEN <<>>
    ELSE IntToStr(ans.last - ans.first + 1)

shared == <<conn, lock, sess, counter>>
world == <<now, upstream, fn, ip>>

(***************************************************************************)
(* Requests: MultiWorkerVODConnectionManager.stream_content_with_session   *)
(***************************************************************************)
\* a thread ends: its locals are gone, the request and its response remain
Ended(rec) ==
    [IdleThread EXCEPT !.pc = "done", !.sid = rec.sid, !.hdr = rec.hdr, !.out = rec.out,
                       !.query = rec.query]

\* the next label of thread t; a thread that ends drops its locals
Goto(t, label) ==
    th' = [th EXCEPT ![t] = IF label = "done" THEN Ended(th[t])
                            ELSE [th[t] EXCEPT !.pc = label]]

\* the handler returns an HttpResponse without a stream
Finish(t, code) ==
    th' = [th EXCEPT ![t] = Ended([th[t] EXCEPT !.out = [NoResponse EXCEPT !.status = code]])]

\* A request for session s with Range header h arrives at a worker, the view
\* having selected profile p (requests are numbered in arrival order and
\* session ids in order of first use).
\* line 451: existing_state = redis_connection._get_connection_state();
\* for an existing connection, lines 516-524: HSET/EXPIRE of vod_session:<sid>
\* (no handler reads that key, so the write is taken with the read).
\* A pending cleanup timer of the session has seen a new request (revived).
Arrive(r, s, h, p) ==
    /\ th[r].pc = "idle"
    /\ IF r = 1 THEN TRUE ELSE th[r - 1].pc # "idle"
    /\ \A s2 \in 1..(s - 1) : \E r2 \in 1..(r - 1) : th[r2].sid = s2
    /\ LET found == conn[s].live
       IN  /\ th' = [t \in Threads |->
                       IF t = r
                       THEN [th[r] EXCEPT !.pc = IF found THEN "gs_read" ELSE "check",
                                          !.sid = s, !.hdr = h, !.prof = p]
                       ELSE IF th[t].pc = "sleep" /\ th[t].sid = s /\ found
                            THEN [th[t] EXCEPT !.revived = TRUE]
                       ELSE th[t]]
           /\ sess' = IF found THEN [sess EXCEPT ![s] = TRUE] ELSE sess
    /\ UNCHANGED <<conn, lock, counter, gh, world>>

\* _check_profile_limits (lines 390-404)
HasFreeSlot(p) == max_streams(p) = 0 \/ counter[p] < max_streams(p)

\* lines 456-458
CheckLimits(r) ==
    /\ th[r].pc = "check"
    /\ IF HasFreeSlot(th[r].prof) THEN Goto(r, "create_lock") ELSE Finish(r, 429)
    /\ UNCHANGED <<shared, gh, world>>

\* create_connection, lines 149-151: _acquire_lock (SET NX EX 10)
CreateLock(r) ==
    /\ th[r].pc = "create_lock"
    /\ IF lock[th[r].sid]
       THEN Finish(r, 500) /\ UNCHANGED lock
       ELSE lock' = [lock EXCEPT ![th[r].sid] = TRUE] /\ Goto(r, "create_get")
    /\ UNCHANGED <<conn, sess, counter, gh, world>>

\* create_connection, lines 155-158
CreateGet(r) ==
    /\ th[r].pc = "create_get"
    /\ Goto(r, IF conn[th[r].sid].live THEN "create_unlock" ELSE "create_save")
    /\ UNCHANGED <<shared, gh, world>>

\* create_connection, lines 161-162
CreateSave(r) ==
    /\ th[r].pc = "create_save"
    /\ conn' = [conn EXCEPT ![th[r].sid] = NewState(th[r].prof, now)]
    /\ Goto(r, "create_unlock")
    /\ UNCHANGED <<lock, sess, counter, gh, world>>

\* create_connection, lines 168-169: finally: self._release_lock()
CreateUnlock(r) ==
    /\ th[r].pc = "create_unlock"
    /\ lock' = [lock EXCEPT ![th[r].sid] = FALSE]
    /\ Goto(r, "incr")
    /\ UNCHANGED <<conn, sess, counter, gh, world>>

\* line 489: _increment_profile_connections (INCR), then lines 508-511:
\* HSET/EXPIRE of vod_session:<sid> (no handler reads that key)
IncrementProfile(r) ==
    /\ th[r].pc = "incr"
    /\ counter' = [counter EXCEPT ![th[r].prof] = @ + 1]
    /\ gh' = [gh EXCEPT !.acq[th[r].sid] = @ + 1]
    /\ sess' = [sess EXCEPT ![th[r].sid] = TRUE]
    /\ Goto(r, "gs_read")
    /\ UNCHANGED <<conn, lock, world>>

(***************************************************************************)
(* RedisBackedVODConnection.get_stream, lines 171-238                      *)
(***************************************************************************)
\* lines 190-199: the Range header sent upstream; NONE when get_stream
\* returns None for an unsatisfiable range
SentRange(range_header, state) ==
    IF range_header # <<>> /\ state.content_length # <<>>
    THEN _validate_range_header(range_header, PyInt(state.content_length).val)
    ELSE range_header

\* lines 174-197: read the state, count the request, validate the range;
\* lines 529-531: the 416 response when get_stream returns None
GetStreamRead(r) ==
    /\ th[r].pc = "gs_read"
    /\ LET state == conn[th[r].sid]
           mine  == [state EXCEPT !.last_activity = now, !.request_count = @ + 1]
       IN  IF ~state.live \/ SentRange(th[r].hdr, mine) = NONE
           THEN Finish(r, 416)
           ELSE th' = [th EXCEPT ![r].pc = "fetch", ![r].st = mine]
    /\ UNCHANGED <<shared, gh, world>>

\* line 204: allow_redirects = not state.final_url
FollowRedirects(state) == state.final_url = ""

\* line 219: if state.request_count == 1
FirstRequest(state) == state.request_count = 1

\* lines 219-225: response info kept on the first request
Learn(state, clen, url) ==
    IF FirstRequest(state)
    THEN [state EXCEPT !.content_length = IF @ = <<>> THEN clen ELSE @,
                       !.final_url = IF @ = "" THEN url ELSE @]
    ELSE state

\* lines 209-230: the upstream fetch succeeds (the provider answers from the
\* node url when redirects are followed), the state read at line 174 is
\* updated and saved: HSET of every field
FetchOk(r) ==
    /\ th[r].pc = "fetch"
    /\ LET state == th[r].st
           ans   == UpstreamAnswer(SentRange(th[r].hdr, state))
       IN  /\ ans.status # 0
           /\ \E url \in (IF FollowRedirects(state) THEN FinalUrls ELSE {state.final_url}) :
                 conn' = [conn EXCEPT ![th[r].sid] = Learn(state, UpstreamLength(ans), url)]
           /\ th' = [th EXCEPT ![r].pc = "headers", ![r].up = ans.status, ![r].st = NoState]
           /\ gh' = [gh EXCEPT !.resolved[th[r].sid] =
                                 IF FollowRedirects(state) THEN @ + 1 ELSE @]
    /\ UNCHANGED <<lock, sess, counter, world>>

\* lines 209-216, 235-238: session.get or raise_for_status raises;
\* self.cleanup() without a connection manager (DEL of the state and of the
\* lock key), then lines 637-639: the 500 response
FetchFail(r) ==
    /\ th[r].pc = "fetch"
    /\ conn' = [conn EXCEPT ![th[r].sid] = NoState]
    /\ lock' = [lock EXCEPT ![th[r].sid] = FALSE]
    /\ gh' = [gh EXCEPT !.resolved[th[r].sid] = 0]
    /\ Finish(r, 500)
    /\ UNCHANGED <<sess, counter, world>>

(***************************************************************************)
(* The response: lines 598-635                                             *)
(***************************************************************************)
BytesSp == <<"b", "y", "t", "e", "s", " ">>

\* lines 619-632; <<>> when the header is not set
ContentRangeFor(range_header, content_length) ==
    IF range_header = <<>> \/ ~Contains(range_header, BytesEq) THEN <<>>
    ELSE LET range_part == RemoveAll(range_header, BytesEq)
         IN  IF ~HasDash(range_part) THEN <<>>
             ELSE LET sp == SplitDash(range_part)
                      ps == PyInt(sp.start_str)
                      pe == PyInt(sp.end_str)
                      pt == PyInt(content_length)
                      start == IF sp.start_str # <<>> THEN ps.val ELSE 0
                      end   == IF sp.end_str # <<>> THEN pe.val ELSE pt.val - 1
                  IN  IF \/ sp.start_str # <<>> /\ ~ps.ok
                         \/ sp.end_str # <<>> /\ ~pe.ok
                         \/ ~pt.ok
                      THEN <<>>
                      ELSE BytesSp \o IntToStr(start) \o <<"-">> \o IntToStr(end)
                           \o <<"/">> \o IntToStr(pt.val)

\* line 605: response.status_code = 206 if range_header else 200
StatusFor(range_header) == IF range_header # <<>> THEN 206 ELSE 200

\* lines 605-632
BuildResponse(range_header, content_length, upstream_status) ==
    [status |-> StatusFor(range_header),
     accept_ranges |-> content_length # <<>>,
     content_length |-> content_length,
     content_range |-> IF content_length # <<>>
                       THEN ContentRangeFor(range_header, content_length) ELSE <<>>,
     upstream |-> upstream_status,
     body |-> <<>>,
     location |-> <<>>]

\* line 534 get_headers (HGETALL), then lines 598-635
Respond(r) ==
    /\ th[r].pc = "headers"
    /\ th' = [th EXCEPT ![r].pc = "inc_lock", ![r].up = 0,
                        ![r].out = BuildResponse(th[r].hdr, conn[th[r].sid].content_length,
                                                 th[r].up)]
    /\ UNCHANGED <<shared, gh, world>>

(***************************************************************************)
(* stream_generator (lines 537-596) with increment_active_streams and      *)
(* decrement_active_streams (lines 278-310)                                *)
(***************************************************************************)
\* lines 280-281: without the lock the increment is skipped
IncLock(r) ==
    /\ th[r].pc = "inc_lock"
    /\ IF lock[th[r].sid]
       THEN Goto(r, "relay") /\ UNCHANGED lock
       ELSE lock' = [lock EXCEPT ![th[r].sid] = TRUE] /\ Goto(r, "inc_read")
    /\ UNCHANGED <<conn, sess, counter, gh, world>>

\* lines 284-287
IncRead(r) ==
    /\ th[r].pc = "inc_read"
    /\ LET state == conn[th[r].sid]
       IN  IF state.live
           THEN th' = [th EXCEPT ![r].pc = "inc_save",
                                 ![r].st = [state EXCEPT !.active_streams = @ + 1,
                                                         !.last_activity = now]]
           ELSE Goto(r, "inc_unlock")
    /\ UNCHANGED <<shared, gh, world>>

\* line 288
IncSave(r) ==
    /\ th[r].pc = "inc_save"
    /\ conn' = [conn EXCEPT ![th[r].sid] = th[r].st]
    /\ th' = [th EXCEPT ![r].pc = "inc_unlock", ![r].st = NoState]
    /\ UNCHANGED <<lock, sess, counter, gh, world>>

\* lines 292-293
IncUnlock(r) ==
    /\ th[r].pc = "inc_unlock"
    /\ lock' = [lock EXCEPT ![th[r].sid] = FALSE]
    /\ Goto(r, "relay")
    /\ UNCHANGED <<conn, sess, counter, gh, world>>

\* where the generator goes on after decrement_active_streams
AfterDecrement(how) ==
    CASE how = "complete" -> "done"
      [] how = "disconnect" -> "has_active"
      [] OTHER -> "cl_read"

\* upstream_response.iter_content: the chunks of the upstream body
UpstreamBody == <<"chunk1", "chunk2">>

\* lines 548-550: the chunks yielded when the relay ends: all of them when
\* the body is exhausted, the first one when the relay stops early
Relayed(how) ==
    IF how = "complete" THEN UpstreamBody ELSE SubSeq(UpstreamBody, 1, 1)

\* line 592: yield b"Error: Stream interrupted"
ErrorText == "Error: Stream interrupted"

\* lines 548-592: the relay ends: the upstream body is exhausted ("complete"),
\* the client goes away (GeneratorExit, "disconnect") or iter_content raises
\* ("error"); then decrement_active_streams, lines 297-298: _acquire_lock
EndRelay(r, how) ==
    /\ th[r].pc = "relay"
    /\ LET sent == [th[r] EXCEPT !.out.body = Relayed(how), !.mode = how]
       IN  IF lock[th[r].sid]
           THEN th' = [th EXCEPT ![r] = IF AfterDecrement(how) = "done" THEN Ended(sent)
                                        ELSE [sent EXCEPT !.pc = AfterDecrement(how)]]
                /\ UNCHANGED lock
           ELSE lock' = [lock EXCEPT ![th[r].sid] = TRUE]
                /\ th' = [th EXCEPT ![r] = [sent EXCEPT !.pc = "dec_read"]]
    /\ UNCHANGED <<conn, sess, counter, gh, world>>

\* lines 301-304
DecRead(r) ==
    /\ th[r].pc = "dec_read"
    /\ LET state == conn[th[r].sid]
       IN  IF state.live /\ state.active_streams > 0
           THEN th' = [th EXCEPT ![r].pc = "dec_save",
                                 ![r].st = [state EXCEPT !.active_streams = @ - 1,
                                                         !.last_activity = now]]
           ELSE Goto(r, "dec_unlock")
    /\ UNCHANGED <<shared, gh, world>>

\* line 305
DecSave(r) ==
    /\ th[r].pc = "dec_save"
    /\ conn' = [conn EXCEPT ![th[r].sid] = th[r].st]
    /\ th' = [th EXCEPT ![r].pc = "dec_unlock", ![r].st = NoState]
    /\ UNCHANGED <<lock, sess, counter, gh, world>>

\* lines 309-310
DecUnlock(r) ==
    /\ th[r].pc = "dec_unlock"
    /\ lock' = [lock EXCEPT ![th[r].sid] = FALSE]
    /\ th' = [th EXCEPT ![r] = IF AfterDecrement(th[r].mode) = "done" THEN Ended(th[r])
                                 ELSE [th[r] EXCEPT !.pc = AfterDecrement(th[r].mode)]]
    /\ UNCHANGED <<conn, sess, counter, gh, world>>

\* has_active_streams (lines 312-315)
has_active_streams(sid) == conn[sid].live /\ conn[sid].active_streams > 0

\* lines 573-584: on a disconnect the cleanup thread is started when no
\* stream is active
ScheduleCleanup(r) ==
    /\ th[r].pc = "has_active"
    /\ Goto(r, IF has_active_streams(th[r].sid) THEN "done" ELSE "sleep")
    /\ UNCHANGED <<shared, gh, world>>

\* lines 575-579: delayed_cleanup after time.sleep(10)
TimerFires(r) ==
    /\ th[r].pc = "sleep"
    /\ Goto(r, IF has_active_streams(th[r].sid) THEN "done" ELSE "cl_read")
    /\ UNCHANGED <<shared, gh, world>>

(***************************************************************************)
(* RedisBackedVODConnection.cleanup(connection_manager=self), lines        *)
(* 328-352, run by the generator's error path, by delayed_cleanup and by   *)
(* the sweeper; then _decrement_profile_connections, lines 417-431         *)
(***************************************************************************)
\* a thread leaves cleanup: a sweeper goes on with its scan; a generator
\* on its error path yields the error text (line 592) and ends; a delayed
\* cleanup thread ends
Leave(t) ==
    th' = [th EXCEPT ![t] =
             IF t \in Sweepers
             THEN [th[t] EXCEPT !.pc = "sw_next", !.sid = 0, !.st = NoState]
             ELSE IF th[t].mode = "error"
                  THEN Ended([th[t] EXCEPT !.out.body = Append(@, ErrorText)])
             ELSE Ended(th[t])]

\* line 331: state = self._get_connection_state()
CleanupRead(t) ==
    /\ th[t].pc = "cl_read"
    /\ th' = [th EXCEPT ![t].pc = "cl_del", ![t].st = conn[th[t].sid]]
    /\ UNCHANGED <<shared, gh, world>>

\* line 348: if state and state.m3u_profile_id and connection_manager
HoldsSlot(state) == state.live /\ state.m3u_profile_id # 0

\* lines 343-349: DEL connection_key, DEL lock_key; the counter is
\* decremented only for a state that was read with a profile id
CleanupDelete(t) ==
    /\ th[t].pc = "cl_del"
    /\ conn' = [conn EXCEPT ![th[t].sid] = NoState]
    /\ lock' = [lock EXCEPT ![th[t].sid] = FALSE]
    /\ gh' = [gh EXCEPT !.resolved[th[t].sid] = 0]
    /\ IF HoldsSlot(th[t].st) THEN Goto(t, "dec_get") ELSE Leave(t)
    /\ UNCHANGED <<sess, counter, world>>

\* line 421-422: current_count = int(GET or 0); if current_count > 0
HasConnections(p) == counter[p] > 0

\* lines 421-428
DecrementGet(t) ==
    /\ th[t].pc = "dec_get"
    /\ IF HasConnections(th[t].st.m3u_profile_id) THEN Goto(t, "dec_decr") ELSE Leave(t)
    /\ UNCHANGED <<shared, gh, world>>

\* line 423: DECR
DecrementDecr(t) ==
    /\ th[t].pc = "dec_decr"
    /\ counter' = [counter EXCEPT ![th[t].st.m3u_profile_id] = @ - 1]
    /\ gh' = [gh EXCEPT !.rel[th[t].sid] = @ + 1]
    /\ Leave(t)
    /\ UNCHANGED <<conn, lock, sess, world>>

(***************************************************************************)
(* The sweeper: cleanup_stale_persistent_connections, lines 731-785        *)
(***************************************************************************)
\* lines 743-746: current_time = time.time(); SCAN vod_persistent_connection:*
\* (a scan that starts when no state is older than max_age changes nothing
\* and is left out)
SweepScan(w) ==
    /\ th[w].pc = "idle"
    /\ \E s \in Sessions : conn[s].live /\ now - conn[s].last_activity > MaxAge
    /\ th' = [th EXCEPT ![w].pc = "sw_next", ![w].t0 = now,
                        ![w].keys = {s \in Sessions : conn[s].live}]
    /\ UNCHANGED <<shared, gh, world>>

Stale_Mut(data, current_time) == current_time - data.last_activity > MaxAge

\* line 763
Stale(data, current_time) ==
    (current_time - data.last_activity > MaxAge) /\ data.active_streams = 0

\* lines 748-769: HGETALL of the next key, cleanup when stale and unused
SweepKey(w) ==
    /\ th[w].pc = "sw_next"
    /\ \E s \in th[w].keys :
          th' = [th EXCEPT ![w].keys = @ \ {s},
                           ![w].sid = IF conn[s].live /\ Stale(conn[s], th[w].t0)
                                      THEN s ELSE 0,
                           ![w].pc = IF conn[s].live /\ Stale(conn[s], th[w].t0)
                                     THEN "cl_read" ELSE "sw_next"]
    /\ UNCHANGED <<shared, gh, world>>

\* lines 776-782: the scan is over
SweepEnd(w) ==
    /\ th[w].pc = "sw_next"
    /\ th[w].keys = {}
    /\ th' = [th EXCEPT ![w] = IdleThread]
    /\ UNCHANGED <<shared, gh, world>>

\* a thread can stay at this label for longer than max_age_seconds: it is
\* not inside a handler (whose Redis calls, upstream fetch, timeout=(10, 30),
\* and time.sleep(10) are short), or it is relaying a body
CanWait(label) == label \in {"idle", "done", "relay"}

\* a key whose EXPIRE was set at time set_at with ttl is gone at time t
Expired(set_at, ttl, t) == t - set_at >= ttl

\* time passes: more than max_age_seconds at once (time that passes while
\* no ConnectionState exists changes nothing and is left out).  Keys past
\* their TTL are gone: every save of a ConnectionState stamps last_activity
\* and sets EXPIRE 3600; vod_session:<sid> was last written at or before the
\* present time with EXPIRE session_ttl
Tick ==
    /\ now < MaxTicks * (MaxAge + 1)
    /\ \A t \in Threads : CanWait(th[t].pc)
    /\ \E s \in Sessions : conn[s].live
    /\ now' = now + MaxAge + 1
    /\ conn' = [s \in Sessions |->
                 IF conn[s].live /\ Expired(conn[s].last_activity, ConnectionTtl, now')
                 THEN NoState ELSE conn[s]]
    /\ sess' = [s \in Sessions |-> sess[s] /\ ~Expired(now, SessionTtl, now')]
    /\ gh' = [gh EXCEPT !.resolved = [s \in Sessions |-> IF conn'[s].live THEN @[s] ELSE 0]]
    /\ UNCHANGED <<lock, counter, th, upstream, fn, ip>>

(***************************************************************************)
(* The edge: VODStreamView.get, views.py lines 59-128.  A query string is  *)
(* a sequence of <<key, value>> pairs; keys and values stand for their     *)
(* percent-encoded text.                                                   *)
(***************************************************************************)
\* the keys of a query string, each once, in order of first occurrence
RECURSIVE KeysOf(_, _)
KeysOf(query, seen) ==
    IF query = <<>> THEN <<>>
    ELSE IF Head(query)[1] \in seen THEN KeysOf(Tail(query), seen)
    ELSE <<Head(query)[1]>> \o KeysOf(Tail(query), seen \cup {Head(query)[1]})

\* QueryDict.getlist(key)
RECURSIVE ValuesOf(_, _)
ValuesOf(query, key) ==
    IF query = <<>> THEN <<>>
    ELSE (IF Head(query)[1] = key THEN <<Head(query)[2]>> ELSE <<>>)
         \o ValuesOf(Tail(query), key)

DictOf_Mut(query) ==
    [i \in 1..Len(KeysOf(query, {})) |->
        <<KeysOf(query, {})[i],
          <<ValuesOf(query, KeysOf(query, {})[i])[Len(ValuesOf(query, KeysOf(query, {})[i]))]>> >>]

\* line 118: dict(request.GET): every key with the list of its values
DictOf(query) ==
    [i \in 1..Len(KeysOf(query, {})) |->
        <<KeysOf(query, {})[i], ValuesOf(query, KeysOf(query, {})[i])>>]

\* line 119: query_params['session_id'] = session_id
SetItem(d, key, value) ==
    IF \E i \in 1..Len(d) : d[i][1] = key
    THEN [i \in 1..Len(d) |-> IF d[i][1] = key THEN <<key, <<value>>>> ELSE d[i]]
    ELSE Append(d, <<key, <<value>>>>)

\* line 120: urlencode(query_params, doseq=True): one pair per value
RECURSIVE urlencode(_)
urlencode(d) ==
    IF d = <<>> THEN <<>>
    ELSE [i \in 1..Len(Head(d)[2]) |-> <<Head(d)[1], Head(d)[2][i]>>] \o urlencode(Tail(d))

\* line 59: request.GET.get('session_id'): the last value, None ("") if absent
SessionIdOf(query) ==
    IF ValuesOf(query, "session_id") = <<>> THEN ""
    ELSE ValuesOf(query, "session_id")[Len(ValuesOf(query, "session_id"))]

\* line 113: f"vod_{int(time.time() * 1000)}_{random.randint(1000, 9999)}"
MintedIds == {"vod_0_1000", "vod_0_9999"}

\* query strings of requests that carry no session id
Queries ==
    {<<>>,
     <<<<"utc_start", "2023-01-01T12:00:00Z">>>>,
     <<<<"a", "1">>, <<"b", "2">>, <<"a", "3">>>>,
     <<<<"session_id", "">>, <<"offset", "30">>>>}

\* lines 112-128: a request without session id is redirected to its own
\* path with the query string extended by a new session id
Redirect(r, query, id) ==
    /\ th[r].pc = "idle"
    /\ IF r = 1 THEN TRUE ELSE th[r - 1].pc # "idle"
    /\ SessionIdOf(query) = ""
    /\ th' = [th EXCEPT ![r] =
                Ended([th[r] EXCEPT
                         !.query = query,
                         !.out = [NoResponse EXCEPT
                                    !.status = 302,
                                    !.location =
                                        urlencode(SetItem(DictOf(query), "session_id", id))]])]
    /\ UNCHANGED <<shared, gh, world>>

(***************************************************************************)
(* Specifications                                                          *)
(***************************************************************************)
RequestStep(r) ==
    \/ CheckLimits(r)
    \/ CreateLock(r) \/ CreateGet(r) \/ CreateSave(r) \/ CreateUnlock(r)
    \/ IncrementProfile(r)
    \/ GetStreamRead(r) \/ FetchOk(r) \/ FetchFail(r) \/ Respond(r)
    \/ IncLock(r) \/ IncRead(r) \/ IncSave(r) \/ IncUnlock(r)
    \/ \E how \in {"complete", "disconnect", "error"} : EndRelay(r, how)
    \/ DecRead(r) \/ DecSave(r) \/ DecUnlock(r)
    \/ ScheduleCleanup(r) \/ TimerFires(r)

CleanupStep(t) ==
    CleanupRead(t) \/ CleanupDelete(t) \/ DecrementGet(t) \/ DecrementDecr(t)

SweepStep(w) == SweepScan(w) \/ SweepKey(w) \/ SweepEnd(w)

\* the sweeper of the first worker
FirstSweeper == MaxReq + 1

\* Workers serving concurrent requests of clients on the limited profile,
\* with or without a Range header, and one worker's sweeper
Next ==
    \/ \E r \in Reqs, s \in Sessions, h \in {NoRange, FirstKiB} : Arrive(r, s, h, 1)
    \/ \E r \in Reqs : RequestStep(r)
    \/ \E t \in Reqs \cup {FirstSweeper} : CleanupStep(t)
    \/ SweepStep(FirstSweeper)
    \/ Tick

Spec == Init /\ [][Next]_vars

\* One client session that goes idle, and the sweepers of all workers
NextSweep ==
    \/ Arrive(1, 1, NoRange, 1)
    \/ RequestStep(1)
    \/ \E t \in {1} \cup Sweepers : CleanupStep(t)
    \/ \E w \in Sweepers : SweepStep(w)
    \/ Tick

SpecSweep == Init /\ [][NextSweep]_vars

\* The same under fair scheduling: a worker thread that can take a step
\* (a request handler, a relay, whose body is finite, a delayed cleanup, a
\* sweeper) eventually takes it, and time passes; clients need not arrive
SpecSweepFair ==
    /\ Init
    /\ [][NextSweep]_vars
    /\ WF_vars(RequestStep(1))
    /\ \A t \in {1} \cup Sweepers : WF_vars(CleanupStep(t))
    /\ \A w \in Sweepers : WF_vars(SweepStep(w))
    /\ WF_vars(Tick)

\* Requests served one after the other (a request arrives when the earlier
\* ones have ended), on either profile, with any of the Range headers, from
\* a provider that may send no Content-Length on full responses
InitSeq ==
    /\ InitStore
    /\ upstream \in {[sends_length |-> b] : b \in BOOLEAN}
    /\ fn = NoFn

ArriveSeq(r, s, h, p) ==
    /\ \A t \in Reqs \ {r} : th[t].pc \in {"idle", "done"}
    /\ Arrive(r, s, h, p)

NextSeq ==
    \/ \E r \in Reqs, s \in Sessions, h \in {NoRange, FirstKiB, SecondKiB, Malformed, Beyond, Overlong},
          p \in Profiles : ArriveSeq(r, s, h, p)
    \/ \E r \in Reqs, q \in Queries, id \in MintedIds :
          Redirect(r, q, id) /\ \A t \in Reqs \ {r} : th[t].pc \in {"idle", "done"}
    \/ \E r \in Reqs : RequestStep(r)
    \/ \E r \in Reqs : CleanupStep(r)

SpecSeq == InitSeq /\ [][NextSeq]_vars

(***************************************************************************)
(* _validate_range_header applied to one header and one content length     *)
(***************************************************************************)
StartStrs ==
    {<<>>, <<"0">>, IntToStr(500), IntToStr(900), IntToStr(999), IntToStr(1000),
     IntToStr(2000)}

EndStrs ==
    {<<>>, <<"0">>, IntToStr(499), IntToStr(999), IntToStr(1000), IntToStr(2000),
     IntToStr(3000)}

Lengths == {1, 1000, UpstreamLen}

Validate(start_str, end_str, content_length) ==
    /\ fn.name = "none"
    /\ fn' = [name |-> "_validate_range_header", start_str |-> start_str,
              end_str |-> end_str, len |-> content_length,
              res |-> _validate_range_header(RangeHdr(start_str, end_str), content_length)]
    /\ UNCHANGED <<shared, now, upstream, th, gh, ip>>

NextRange == \E s \in StartStrs, e \in EndStrs, l \in Lengths : Validate(s, e, l)

SpecRange == Init /\ [][NextRange]_vars

(***************************************************************************)
(* MultiWorkerVODConnectionManager._apply_timeshift_parameters, lines      *)
(* 641-713.  A URL is its path and its query string (a sequence of         *)
(* <<key, value>> pairs, a value being a sequence of characters, <<>> the  *)
(* blank value); None and '' are <<>> for the three timeshift arguments.   *)
(***************************************************************************)
\* line 650: parse_qs(parsed_url.query): pairs with a blank value are left
\* out (keep_blank_values=False)
NotBlank(pair) == pair[2] # <<>>
parse_qs(query) == DictOf(SelectSeq(query, NotBlank))

StartAliases == <<"utc_start", "start">>
EndAliases == <<"utc_end", "end">>
OffsetAliases == <<"offset", "seek", "t">>

Mirror_Mut(d, aliases, value) == SetItem(d, Head(aliases), value)

\* lines 657-658, 662-663, 669-671: query_params[alias] = [value] for every
\* alias of the group
RECURSIVE Mirror(_, _, _)
Mirror(d, aliases, value) ==
    IF aliases = <<>> THEN d
    ELSE Mirror(SetItem(d, Head(aliases), value), Tail(aliases), value)

IsoStart == <<"2023-01-01T12:00:00Z">>
IsoEnd == <<"2023-01-01T13:00:00Z">>
NotIso == <<"yesterday">>

\* line 682: datetime.fromisoformat(utc_start.replace('Z', '+00:00')) succeeds
IsIso(value) == value \in {IsoStart, IsoEnd}

\* lines 684-691: the date and time of a catchup path are replaced by those
\* of utc_start
CatchupPath(path, utc_start) ==
    IF path = "/catchup/2022-12-31/00-00-00/" /\ utc_start = IsoStart
    THEN "/catchup/2023-01-01/12-00-00/"
    ELSE path

_apply_timeshift_parameters(original_url, utc_start, utc_end, offset) ==
    IF utc_start = <<>> /\ utc_end = <<>> /\ offset = <<>> THEN original_url
    ELSE IF ~original_url.parseable THEN original_url
    ELSE LET q0 == parse_qs(original_url.query)
             q1 == IF utc_start # <<>> THEN Mirror(q0, StartAliases, utc_start) ELSE q0
             q2 == IF utc_end # <<>> THEN Mirror(q1, EndAliases, utc_end) ELSE q1
             q3 == IF offset # <<>> /\ PyInt(offset).ok
                   THEN Mirror(q2, OffsetAliases, IntToStr(PyInt(offset).val))
                   ELSE q2
         IN  [parseable |-> TRUE,
              path |-> IF utc_start # <<>> /\ IsIso(utc_start)
                       THEN CatchupPath(original_url.path, utc_start)
                       ELSE original_url.path,
              query |-> urlencode(q3)]

\* upstream URLs: with and without query parameters of the alias groups,
\* with a blank value, with a catchup path, and one that urlparse rejects
UpstreamQueries ==
    {<<>>,
     <<<<"start", <<"old">>>>, <<"x", <<"1">>>>, <<"end", <<"old">>>>>>,
     <<<<"seek", <<>>>>, <<"x", <<"1">>>>>>}

UpstreamUrls ==
    {[parseable |-> TRUE, path |-> p, query |-> q] :
        p \in {"/movie/1.mp4", "/catchup/2022-12-31/00-00-00/"}, q \in UpstreamQueries}
    \cup {[parseable |-> FALSE, path |-> "", query |-> <<>>]}

StartArgs == {<<>>, IsoStart, NotIso}
EndArgs == {<<>>, IsoEnd}
OffsetArgs == {<<>>, <<"3", "0">>, <<"0", "3", "0">>, <<"1", "2", ".", "5">>}

Rewrite(url, utc_start, utc_end, offset) ==
    /\ fn.name = "none"
    /\ fn' = [name |-> "_apply_timeshift_parameters", url |-> url, utc_start |-> utc_start,
              utc_end |-> utc_end, offset |-> offset,
              res |-> _apply_timeshift_parameters(url, utc_start, utc_end, offset)]
    /\ UNCHANGED <<shared, now, upstream, th, gh, ip>>

NextTimeshift ==
    \E url \in UpstreamUrls, s \in StartArgs, e \in EndArgs, o \in OffsetArgs :
        Rewrite(url, s, e, o)

SpecTimeshift == Init /\ [][NextTimeshift]_vars

(***************************************************************************)
(* SerializableConnectionState.to_dict / from_dict, lines 39-70, with the   *)
(* hash written by _save_connection_state and read back by                  *)
(* _get_connection_state.  A str is a sequence of characters, None where a  *)
(* str is expected is NONE, an Optional[int] is <<>> for None and <<n>> for *)
(* n, a dict of str to str is the sequence of its items.  Strings hold no   *)
(* character that JSON escapes.                                             *)
(***************************************************************************)
\* bool(s) of a str or None
Truthy(s) == s # NONE /\ s # <<>>

\* s or ''
OrEmpty(s) == IF Truthy(s) THEN s ELSE <<>>

Quote == <<"\"">>

\* the members of the JSON object json.dumps writes for a dict
RECURSIVE JsonMembers(_)
JsonMembers(items) ==
    IF items = <<>> THEN <<>>
    ELSE Quote \o items[1][1] \o Quote \o <<":", " ">> \o Quote \o items[1][2] \o Quote
         \o (IF Len(items) > 1 THEN <<",", " ">> ELSE <<>>)
         \o JsonMembers(Tail(items))

\* json.dumps(d)
JsonDumps(items) == <<"{">> \o JsonMembers(items) \o <<"}">>

\* the quoted strings of a JSON text, in the order they are written
RECURSIVE Quoted(_, _, _)
Quoted(text, open, cur) ==
    IF text = <<>> THEN <<>>
    ELSE IF Head(text) = "\"" THEN
             IF open THEN <<cur>> \o Quoted(Tail(text), FALSE, <<>>)
             ELSE Quoted(Tail(text), TRUE, <<>>)
    ELSE IF open THEN Quoted(Tail(text), TRUE, Append(cur, Head(text)))
    ELSE Quoted(Tail(text), FALSE, cur)

\* json.loads(text) of an object of strings: keys and values alternate
JsonLoads(text) ==
    LET strs == Quoted(text, FALSE, <<>>)
    IN  [i \in 1..(Len(strs) \div 2) |-> <<strs[2 * i - 1], strs[2 * i]>>]

\* str(x) of a whole-number float
FloatToStr(x) == IntToStr(x) \o <<".", "0">>

\* float(s) of such a string: the digits before the point
PyFloat(s) ==
    LET point == CHOOSE i \in 1..Len(s) : s[i] = "."
    IN  PyInt(SubSeq(s, 1, point - 1)).val

LoadProfile_Mut(s) == IF s # <<>> /\ PyInt(s).val # 0 THEN <<PyInt(s).val>> ELSE <<>>

\* line 65: int(data.get('m3u_profile_id')) if data.get('m3u_profile_id') else None
LoadProfile(s) == IF s # <<>> THEN <<PyInt(s).val>> ELSE <<>>

VideoMp4 == <<"v", "i", "d", "e", "o", "/", "m", "p", "4">>

\* lines 39-52
to_dict(state) ==
    [session_id |-> OrEmpty(state.session_id),
     stream_url |-> OrEmpty(state.stream_url),
     headers |-> JsonDumps(state.headers),
     content_length |-> IF state.content_length # NONE THEN state.content_length ELSE <<>>,
     content_type |-> IF Truthy(state.content_type) THEN state.content_type ELSE VideoMp4,
     final_url |-> OrEmpty(state.final_url),
     m3u_profile_id |-> IF state.m3u_profile_id # <<>> THEN IntToStr(state.m3u_profile_id[1])
                        ELSE <<>>,
     last_activity |-> FloatToStr(state.last_activity),
     request_count |-> IntToStr(state.request_count),
     active_streams |-> IntToStr(state.active_streams)]

\* lines 54-70
from_dict(data) ==
    [session_id |-> data.session_id,
     stream_url |-> data.stream_url,
     headers |-> IF data.headers # <<>> THEN JsonLoads(data.headers) ELSE <<>>,
     content_length |-> IF data.content_length # <<>> THEN data.content_length ELSE NONE,
     content_type |-> data.content_type,
     final_url |-> IF data.final_url # <<>> THEN data.final_url ELSE NONE,
     m3u_profile_id |-> LoadProfile(data.m3u_profile_id),
     last_activity |-> PyFloat(data.last_activity),
     request_count |-> PyInt(data.request_count).val,
     active_streams |-> PyInt(data.active_streams).val]

SessionIds == {<<"v", "o", "d", "_", "1">>, <<"v", "o", "d", "_", "2">>}

StreamUrl == <<"h", "t", "t", "p", ":", "/", "/", "p", "/", "m", ".", "m", "k", "v">>

UserAgent == <<<<"U", "s", "e", "r", "-", "A", "g", "e", "n", "t">>, <<"V", "L", "C">>>>

Accept == <<<<"a", "c", "c", "e", "p", "t">>, <<"*", "/", "*">>>>

\* the headers dict built by the view: empty, or what the client sent
HeaderDicts == {<<>>, <<UserAgent>>, <<UserAgent, Accept>>}

ContentLengths == {NONE, <<"0">>, IntToStr(UpstreamLen)}

FinalUrlStrs == {NONE, <<"h", "t", "t", "p", ":", "/", "/", "c", "d", "n", "/", "m">>}

ProfileIds == {<<>>, <<0>>, <<1>>, <<10>>}

Counts == {0, 1, 12}

\* SerializableConnectionState objects a worker may save
ConnectionStates ==
    [session_id : SessionIds, stream_url : {StreamUrl}, headers : HeaderDicts,
     content_length : ContentLengths, content_type : {VideoMp4}, final_url : FinalUrlStrs,
     m3u_profile_id : ProfileIds, last_activity : {MaxTicks}, request_count : Counts,
     active_streams : {0, 1}]

\* _save_connection_state(state) followed by _get_connection_state()
StoreAndLoad(state) ==
    /\ fn.name = "none"
    /\ fn' = [name |-> "from_dict", state |-> state, data |-> to_dict(state),
              res |-> from_dict(to_dict(state))]
    /\ UNCHANGED <<shared, now, upstream, th, gh, ip>>

NextSerial == \E state \in ConnectionStates : StoreAndLoad(state)

SpecSerial == Init /\ [][NextSerial]_vars

(***************************************************************************)
(* The in-process manager (connection_manager.py): VODConnectionManager    *)
(* .stream_content_with_session, lines 776-1002, PersistentVODConnection   *)
(* .get_stream, lines 153-178, and cleanup_persistent_connection, lines    *)
(* 1089-1149.  Requests carry no Range header.  A session id names one     *)
(* connection object: a request for an id whose object was removed is left *)
(* out.                                                                    *)
(***************************************************************************)
TimerThreadOf(s) == MaxReq + MaxSweepers + s

\* threading.Lock.acquire: self.lock is free (the lock is not reentrant: a
\* thread that holds it cannot acquire it again)
CanAcquire(obj) == obj.lock = 0

\* line 801: persistent_conn = self._persistent_connections.get(session_id);
\* for an existing connection, lines 848-851: HSET/EXPIRE of the session key
PArrive(r, s, p) ==
    /\ th[r].pc = "idle"
    /\ IF r = 1 THEN TRUE ELSE th[r - 1].pc # "idle"
    /\ IF ip.pconn[s].present
       THEN /\ th' = [th EXCEPT ![r] = [@ EXCEPT !.pc = "p_lock", !.sid = s, !.prof = p]]
            /\ ip' = [ip EXCEPT !.srec[s].exists = TRUE]
       ELSE /\ \A t \in Threads : th[t].sid # s
            /\ th' = [th EXCEPT ![r] = [@ EXCEPT !.pc = "p_new", !.sid = s, !.prof = p]]
            /\ ip' = ip
    /\ UNCHANGED <<shared, gh, now, upstream, fn>>

\* lines 807-841: the session record, with connection_counted = "True", and
\* the connection object
PNew(r) ==
    /\ th[r].pc = "p_new"
    /\ ip' = [ip EXCEPT !.srec[th[r].sid] = [exists |-> TRUE, connection_counted |-> TRUE,
                                             profile_id |-> th[r].prof],
                        !.pconn[th[r].sid] = [NoPersistent EXCEPT !.present = TRUE]]
    /\ Goto(r, "p_check")
    /\ UNCHANGED <<shared, gh, now, upstream, fn>>

\* line 844 create_connection, lines 276-278: the limit check; its result
\* is not used by stream_content_with_session
PCheckLimits(r) ==
    /\ th[r].pc = "p_check"
    /\ Goto(r, IF HasFreeSlot(th[r].prof) THEN "p_track" ELSE "p_lock")
    /\ UNCHANGED <<shared, gh, world>>

\* create_connection, lines 301-314: the pipeline (HSET of the tracking hash,
\* INCR of the profile counter)
PTrack(r) ==
    /\ th[r].pc = "p_track"
    /\ ip' = [ip EXCEPT !.track[th[r].sid] = th[r].prof]
    /\ counter' = [counter EXCEPT ![th[r].prof] = @ + 1]
    /\ gh' = [gh EXCEPT !.acq[th[r].sid] = @ + 1]
    /\ Goto(r, "p_lock")
    /\ UNCHANGED <<conn, lock, sess, now, upstream, fn>>

\* get_stream, lines 155-160: with self.lock; cancel_cleanup
PLock(r) ==
    /\ th[r].pc = "p_lock"
    /\ CanAcquire(ip.pconn[th[r].sid])
    /\ ip' = [ip EXCEPT !.pconn[th[r].sid].lock = r, !.pconn[th[r].sid].timer = FALSE]
    /\ Goto(r, "p_fetch")
    /\ UNCHANGED <<shared, gh, now, upstream, fn>>

\* get_stream, lines 173-178, _establish_connection, lines 39-102: the fetch
\* succeeds, self.lock is released; then lines 932-944, the response
PFetchOk(r) ==
    /\ th[r].pc = "p_fetch"
    /\ ip' = [ip EXCEPT !.pconn[th[r].sid].session = TRUE,
                        !.pconn[th[r].sid].response = r,
                        !.pconn[th[r].sid].lock = 0]
    /\ th' = [th EXCEPT ![r].pc = "p_relay", ![r].out = [NoResponse EXCEPT !.status = 200]]
    /\ UNCHANGED <<shared, gh, now, upstream, fn>>

\* _establish_connection, lines 104-107: the fetch raises; self.cleanup()
\* (lines 213-228) starts with "with self.lock" in the thread that is inside
\* get_stream's "with self.lock".  With the lock it closes the connection
\* and re-raises, and lines 997-1002 remove the object and answer 500;
\* without it the thread waits
PFetchFail(r) ==
    /\ th[r].pc = "p_fetch"
    /\ IF CanAcquire(ip.pconn[th[r].sid])
       THEN /\ ip' = [ip EXCEPT !.pconn[th[r].sid] = NoPersistent]
            /\ Finish(r, 500)
       ELSE /\ ip' = ip
            /\ Goto(r, "p_blocked")
    /\ UNCHANGED <<shared, gh, now, upstream, fn>>

\* stream_generator, lines 897-926: the body is exhausted ("complete"); the
\* client goes away, schedule_delayed_cleanup(5) ("disconnect"); iter_content
\* raises, cleanup_persistent_connection ("error")
PEndRelay(r, how) ==
    /\ th[r].pc = "p_relay"
    /\ CASE how = "complete" -> Goto(r, "done") /\ ip' = ip
         [] how = "disconnect" ->
                /\ Goto(r, "done")
                /\ ip' = [ip EXCEPT !.pconn[th[r].sid].timer = TRUE]
         [] OTHER ->
                /\ th' = [th EXCEPT ![r].pc = "c_lock", ![r].mode = "error"]
                /\ ip' = ip
    /\ UNCHANGED <<shared, gh, now, upstream, fn>>

\* lines 185-191: the timer expires and delayed_cleanup starts in its thread
PTimerFires(s) ==
    /\ ip.pconn[s].timer
    /\ th[TimerThreadOf(s)].pc = "idle"
    /\ ip' = [ip EXCEPT !.pconn[s].timer = FALSE]
    /\ th' = [th EXCEPT ![TimerThreadOf(s)] = [IdleThread EXCEPT !.pc = "c_lock", !.sid = s]]
    /\ UNCHANGED <<shared, gh, now, upstream, fn>>

\* cleanup_persistent_connection ends
PLeave(t) ==
    th' = [th EXCEPT ![t] = IF t \in TimerThreads THEN IdleThread
                            ELSE Ended([th[t] EXCEPT !.out.body = Append(@, ErrorText)])]

\* lines 1091-1094: if session_id in self._persistent_connections: cleanup()
\* (with self.lock: the timer is cancelled, the response and the session
\* are closed), del
PCleanLock(t) ==
    /\ th[t].pc = "c_lock"
    /\ IF ip.pconn[th[t].sid].present
       THEN /\ CanAcquire(ip.pconn[th[t].sid])
            /\ ip' = [ip EXCEPT !.pconn[th[t].sid] = NoPersistent]
            /\ Goto(t, "c_session")
       ELSE ip' = ip /\ PLeave(t)
    /\ UNCHANGED <<shared, gh, now, upstream, fn>>

\* lines 1099-1105: session_data = HGETALL vod_session:<sid>
PCleanSession(t) ==
    /\ th[t].pc = "c_session"
    /\ th' = [th EXCEPT ![t].data = ip.srec[th[t].sid],
                        ![t].pc = IF ip.srec[th[t].sid].exists
                                     /\ ip.srec[th[t].sid].profile_id # 0
                                  THEN "c_remove" ELSE "c_delete"]
    /\ UNCHANGED <<shared, gh, world>>

\* line 1113: remove_connection, lines 375-421: the tracking hash is
\* deleted and the counter of its m3u_profile_id is decremented when
\* positive
PCleanRemove(t) ==
    /\ th[t].pc = "c_remove"
    /\ LET profile_id == ip.track[th[t].sid]
       IN  /\ ip' = [ip EXCEPT !.track[th[t].sid] = 0]
           /\ IF profile_id # 0 /\ HasConnections(profile_id)
              THEN /\ counter' = [counter EXCEPT ![profile_id] = @ - 1]
                   /\ gh' = [gh EXCEPT !.rel[th[t].sid] = @ + 1]
              ELSE UNCHANGED <<counter, gh>>
    /\ Goto(t, "c_safety")
    /\ UNCHANGED <<conn, lock, sess, now, upstream, fn>>

\* lines 1115-1121: "Remove from profile connections if counted"
PCleanSafety(t) ==
    /\ th[t].pc = "c_safety"
    /\ IF th[t].data.connection_counted /\ HasConnections(th[t].data.profile_id)
       THEN /\ counter' = [counter EXCEPT ![th[t].data.profile_id] = @ - 1]
            /\ gh' = [gh EXCEPT !.rel[th[t].sid] = @ + 1]
       ELSE UNCHANGED <<counter, gh>>
    /\ Goto(t, "c_delete")
    /\ UNCHANGED <<conn, lock, sess, world>>

\* line 1124: DEL vod_session:<sid>
PCleanDelete(t) ==
    /\ th[t].pc = "c_delete"
    /\ ip' = [ip EXCEPT !.srec[th[t].sid] = NoSessionRecord]
    /\ PLeave(t)
    /\ UNCHANGED <<shared, gh, now, upstream, fn>>

PRequestStep(r) ==
    \/ PNew(r) \/ PCheckLimits(r) \/ PTrack(r)
    \/ PLock(r) \/ PFetchOk(r) \/ PFetchFail(r)
    \/ \E how \in {"complete", "disconnect", "error"} : PEndRelay(r, how)

PCleanupStep(t) ==
    PCleanLock(t) \/ PCleanSession(t) \/ PCleanRemove(t) \/ PCleanSafety(t) \/ PCleanDelete(t)

\* One worker with the in-process manager serving concurrent requests
NextInProcess ==
    \/ \E r \in Reqs, s \in Sessions, p \in Profiles : PArrive(r, s, p)
    \/ \E r \in Reqs : PRequestStep(r)
    \/ \E s \in Sessions : PTimerFires(s)
    \/ \E t \in Reqs \cup TimerThreads : PCleanupStep(t)

SpecInProcess == Init /\ [][NextInProcess]_vars

(***************************************************************************)
(* Properties                                                              *)
(***************************************************************************)
\* the live ConnectionStates that reference profile p
LiveOn(p) == {s \in Sessions : conn[s].live /\ conn[s].m3u_profile_id = p}

\* C1: for every profile with max_streams = N > 0, at most N live
\* ConnectionStates reference the profile, in every reachable state.
C1_ProfileCapacity ==
    \A p \in Profiles : max_streams(p) > 0 => Cardinality(LiveOn(p)) <= max_streams(p)

\* C2: the profile counter is never below 0, whatever releases (cleanup with
\* _decrement_profile_connections) are made and however they interleave.
C2_CounterNotNegative == \A p \in Profiles : counter[p] >= 0

\* no thread is working on session s and its ConnectionState is gone
Exited(s) ==
    /\ ~conn[s].live
    /\ \A t \in Threads : th[t].sid = s => th[t].pc = "done"

\* C3: every acquisition of a profile slot is matched by exactly one release:
\* once a session has exited (on any path), the counter has been decremented
\* as often as it was incremented for the session.
C3_ReleasedOncePerAcquisition ==
    \A s \in Sessions : Exited(s) => gh.rel[s] = gh.acq[s]

\* a step keeps what the ConnectionState of session s has learnt
KeepsResolution(s) ==
    (conn[s].live /\ conn'[s].live) =>
        /\ conn[s].final_url # "" => conn'[s].final_url = conn[s].final_url
        /\ conn[s].content_length # <<>> => conn'[s].content_length = conn[s].content_length

\* C4: each session id has one ConnectionState, and its final_url and its
\* content_length, once set, keep their value in every later state of that
\* ConnectionState, under any interleaving of get_stream calls.
C4_ResolutionNeverChanges == [][\A s \in Sessions : KeepsResolution(s)]_vars

\* C5: redirect resolution happens at most once per session: at most one
\* upstream fetch of a ConnectionState follows redirects.
C5_ResolvedAtMostOnce == \A s \in Sessions : gh.resolved[s] <= 1

\* C6: a stale idle session is reclaimed once and its profile slot is released
\* exactly once, also when the sweeper runs on several workers at once: the
\* releases made for a session never outnumber its acquisitions.
C6_StaleReleasedOnce == \A s \in Sessions : gh.rel[s] <= gh.acq[s]

\* the delayed cleanup of request r, which saw a new request for its session
\* while it slept, deletes the ConnectionState in this step
TimerReclaimsRevived(r) ==
    /\ th[r].pc = "cl_del"
    /\ th[r].revived
    /\ conn[th[r].sid].live
    /\ ~conn'[th[r].sid].live

\* C7: a session that receives a new request after a disconnect scheduled its
\* delayed cleanup and before the timer fires is not reclaimed by that timer.
C7_RevivedNotReclaimed == [][\A r \in Reqs : ~TimerReclaimsRevived(r)]_vars

\* what range validation is to return for start, the optional end and L
Expected(start, end_str, L) ==
    LET clamped == IF end_str = <<>> \/ DigitsVal(end_str, 0) >= L THEN L - 1
                   ELSE DigitsVal(end_str, 0)
    IN  IF start >= L \/ start > clamped THEN NONE
        ELSE BytesEq \o NatToStr(start) \o <<"-">> \o NatToStr(clamped)

Applied(start_str, end_str, L) ==
    /\ fn.name = "_validate_range_header"
    /\ fn.start_str = start_str
    /\ fn.end_str = end_str
    /\ fn.len = L

\* C8: for L > 0 and a header bytes=<start>-<end> with a non-negative start
\* and an optional end, range validation returns NOT_SATISFIABLE when
\* start >= L, else clamps a missing end or an end >= L to L-1, returns
\* NOT_SATISFIABLE when start > end after clamping, else bytes=<start>-<end>;
\* with L = 1000: bytes=500- gives bytes=500-999, bytes=2000-3000 gives
\* NOT_SATISFIABLE, bytes=900-2000 gives bytes=900-999.
C8_RangeValidation ==
    /\ (fn.name = "_validate_range_header" /\ fn.start_str # <<>>) =>
           fn.res = Expected(DigitsVal(fn.start_str, 0), fn.end_str, fn.len)
    /\ Applied(<<"5", "0", "0">>, <<>>, 1000) =>
           fn.res = <<"b", "y", "t", "e", "s", "=", "5", "0", "0", "-", "9", "9", "9">>
    /\ Applied(<<"2", "0", "0", "0">>, <<"3", "0", "0", "0">>, 1000) => fn.res = NONE
    /\ Applied(<<"9", "0", "0">>, <<"2", "0", "0", "0">>, 1000) =>
           fn.res = <<"b", "y", "t", "e", "s", "=", "9", "0", "0", "-", "9", "9", "9">>

\* an overflowing end was clamped: bytes=900-2000 with L = 1000
C8_Clamped ==
    /\ Applied(<<"9", "0", "0">>, <<"2", "0", "0", "0">>, 1000)
    /\ fn.res = <<"b", "y", "t", "e", "s", "=", "9", "0", "0", "-", "9", "9", "9">>

\* request r was answered with a stream
Streamed(r) == th[r].out.status \in {200, 206}

\* the first request of a session: no earlier request was made on it
FirstOn(r) == \A q \in 1..(r - 1) : th[q].sid # th[r].sid

\* C9: with a resource of L >= 2048 bytes, bytes=0-1023 is answered 206 with
\* Content-Range bytes 0-1023/L, and a follow-up bytes=1024-2047 on the same
\* session is answered 206: after a first request that carried a Range, later
\* in-bounds ranges are honoured against the total length L.
C9_RangesAgainstTotalLength ==
    /\ \A r \in Reqs :
          (Streamed(r) /\ th[r].hdr = FirstKiB) =>
              /\ th[r].out.status = 206
              /\ th[r].out.content_range =
                     BytesSp \o IntToStr(0) \o <<"-">> \o IntToStr(1023) \o <<"/">>
                     \o IntToStr(UpstreamLen)
    /\ \A q, r \in Reqs :
          (/\ q < r /\ th[q].sid = th[r].sid /\ FirstOn(q)
           /\ th[q].hdr = FirstKiB /\ Streamed(q) /\ th[q].pc = "done"
           /\ conn[th[r].sid].live
           /\ th[r].hdr = SecondKiB /\ th[r].pc = "done") =>
              th[r].out.status = 206

\* the provider honoured a valid Range: it answered 206 Partial Content
Honoured(r) == th[r].out.upstream = 206

\* C10: a streaming response has status 206 and Content-Range exactly when a
\* valid Range was honoured, and otherwise status 200 with Content-Length
\* (when the provider sent one);
\* Accept-Ranges is present whenever the content_length is known.
C10_ResponseShape ==
    \A r \in Reqs :
        Streamed(r) =>
            /\ th[r].out.status = 206 <=> Honoured(r)
            /\ th[r].out.content_range # <<>> <=> Honoured(r)
            /\ (~Honoured(r) /\ upstream.sends_length) => th[r].out.content_length # <<>>
            /\ th[r].out.accept_ranges <=> th[r].out.content_length # <<>>

\* request r was refused for a Range that the known content_length of its
\* session does not satisfy
Unsatisfiable(r) ==
    /\ th[r].out.status = 416
    /\ conn[th[r].sid].live
    /\ conn[th[r].sid].content_length # <<>>

\* C11: a Range that is not satisfiable against the known content_length is
\* answered 416 with Content-Range: bytes */<content_length>, and no upstream
\* fetch is made for the request.
C11_UnsatisfiableAnswer ==
    \A r \in Reqs :
        Unsatisfiable(r) =>
            /\ th[r].out.content_range =
                   BytesSp \o <<"*", "/">> \o conn[th[r].sid].content_length
            /\ th[r].out.upstream = 0

\* in this step the handling of request r ends after an unrecoverable
\* upstream error: the fetch of get_stream failed, or the relay failed and
\* the generator has run its teardown
EndsOnUpstreamError(r) ==
    /\ th[r].pc = "fetch" \/ th[r].mode = "error"
    /\ th'[r].pc = "done"

\* C12: after an unrecoverable upstream error, raised by the fetch of
\* get_stream or in the middle of the relay, the ConnectionState of the
\* session is deleted at once and the profile slot of the session is released.
C12_ErrorTeardown ==
    [][\A r \in Reqs :
          EndsOnUpstreamError(r) =>
              /\ ~conn'[th[r].sid].live
              /\ gh'.rel[th[r].sid] = gh'.acq[th[r].sid]]_vars

\* s is a prefix of t
IsPrefix(s, t) == Len(s) <= Len(t) /\ SubSeq(t, 1, Len(s)) = s

\* C13: the body delivered to the client is a prefix, in order, of the bytes
\* the upstream returned: a relay that fails mid-stream truncates the body
\* and appends nothing that did not come from the upstream.
C13_BodyIsUpstreamPrefix ==
    \A r \in Reqs : IsPrefix(th[r].out.body, UpstreamBody)

\* the profile slots held for session s: acquisitions not yet released
SlotsHeld(s) == gh.acq[s] - gh.rel[s]

\* C14: when workers concurrently handle the first request for the same
\* unseen session id, one ConnectionState is created and exactly one profile
\* slot is acquired for the session.
C14_OneSlotPerSession == \A s \in Sessions : SlotsHeld(s) <= 1

\* request r, on a profile with max_streams = 0, takes a step of its
\* acquisition: the limit check or the increment
UnlimitedAcquires(r) ==
    /\ th[r].prof \in Profiles
    /\ max_streams(th[r].prof) = 0
    /\ th[r].pc \in {"check", "incr"}
    /\ th'[r].pc # th[r].pc

\* C15: for a profile with max_streams = 0 the acquisition always succeeds
\* and leaves the profile counter as it was.
C15_UnlimitedLeavesCounter ==
    [][\A r \in Reqs :
          UnlimitedAcquires(r) =>
              /\ th'[r].out.status # 429
              /\ counter'[th[r].prof] = counter[th[r].prof]]_vars

\* C16: for every profile with max_streams = N > 0 the counter satisfies
\* 0 <= count <= N in every reachable state.
C16_CounterWithinLimit ==
    \A p \in Profiles :
        max_streams(p) > 0 => (0 <= counter[p] /\ counter[p] <= max_streams(p))

\* the number of times pair occurs in the query string seq
RECURSIVE Count(_, _)
Count(seq, pair) ==
    IF seq = <<>> THEN 0
    ELSE (IF Head(seq) = pair THEN 1 ELSE 0) + Count(Tail(seq), pair)

\* in this step request r, which carries no session id, is answered
Redirected(r) == th[r].pc = "idle" /\ th'[r].out.status = 302

\* the Location of the answer holds one session_id, a minted one, and every
\* other parameter of the request as often as the request has it
KeepsQuery(location, query) ==
    /\ \E id \in MintedIds :
          /\ Count(location, <<"session_id", id>>) = 1
          /\ \A i \in 1..Len(location) :
                location[i][1] = "session_id" => location[i][2] = id
    /\ \A i \in 1..Len(query) :
          query[i][1] # "session_id" => Count(location, query[i]) = Count(query, query[i])

\* C17: a request without session id is answered 302 with a Location that
\* holds a newly minted session_id and every query parameter of the request;
\* handling it creates no ConnectionState or SessionRecord, acquires no
\* profile slot and opens no upstream connection.
C17_RedirectKeepsQuery ==
    [][\A r \in Reqs :
          Redirected(r) =>
              /\ KeepsQuery(th'[r].out.location, th'[r].query)
              /\ UNCHANGED <<conn, lock, sess, counter, gh>>]_vars

\* a request with a parameter given twice has been redirected
C17_MultiValuedRedirected ==
    \E r \in Reqs :
        /\ th[r].out.status = 302
        /\ Count(th[r].query, <<"a", "1">>) = 1
        /\ Count(th[r].out.location, <<"a", "3">>) = 1
        /\ Count(th[r].out.location, <<"session_id", "vod_0_9999">>) = 1

Rewritten ==
    /\ fn.name = "_apply_timeshift_parameters"
    /\ fn.url.parseable
    /\ fn.utc_start # <<>> \/ fn.utc_end # <<>> \/ fn.offset # <<>>

\* every alias of the group carries exactly the one value
AllCarry(query, aliases, value) ==
    \A i \in 1..Len(aliases) : ValuesOf(query, aliases[i]) = <<value>>

\* every alias of the group carries the values the upstream URL gave it
\* (all of them, or only the non-blank ones)
AsUpstream(aliases, blank_too) ==
    \A i \in 1..Len(aliases) :
        ValuesOf(fn.res.query, aliases[i]) =
            ValuesOf(IF blank_too THEN fn.url.query ELSE SelectSeq(fn.url.query, NotBlank),
                     aliases[i])

\* C18 (as the code has it): rewriting a parseable URL writes a supplied
\* utc_start into utc_start and start and a supplied utc_end into utc_end
\* and end, each as supplied, and a supplied integer offset into offset,
\* seek and t in canonical decimal form (str(int(offset))); the aliases of
\* a group that was not supplied, or of an offset that is not an integer,
\* keep their non-blank upstream values, blank-valued ones being dropped.
C18_AliasesMirrored ==
    Rewritten =>
        /\ IF fn.utc_start # <<>>
           THEN AllCarry(fn.res.query, StartAliases, fn.utc_start)
           ELSE AsUpstream(StartAliases, FALSE)
        /\ IF fn.utc_end # <<>>
           THEN AllCarry(fn.res.query, EndAliases, fn.utc_end)
           ELSE AsUpstream(EndAliases, FALSE)
        /\ IF fn.offset # <<>> /\ PyInt(fn.offset).ok
           THEN AllCarry(fn.res.query, OffsetAliases, IntToStr(PyInt(fn.offset).val))
           ELSE AsUpstream(OffsetAliases, FALSE)

\* C18 witness: utc_start and an offset were supplied for a URL that already
\* had start=old, and start now carries the supplied time only
C18_StartOverwritten ==
    /\ Rewritten
    /\ fn.utc_start = IsoStart
    /\ fn.offset = <<"3", "0">>
    /\ ValuesOf(fn.url.query, "start") = <<<<"old">>>>
    /\ ValuesOf(fn.res.query, "start") = <<IsoStart>>
    /\ ValuesOf(fn.res.query, "t") = <<<<"3", "0">>>>

\* C18 as stated: every supplied value appears verbatim in every alias of
\* its group, and the aliases of a group not supplied are as in the
\* upstream URL.
C18_AsStated ==
    Rewritten =>
        /\ IF fn.utc_start # <<>>
           THEN AllCarry(fn.res.query, StartAliases, fn.utc_start)
           ELSE AsUpstream(StartAliases, TRUE)
        /\ IF fn.utc_end # <<>>
           THEN AllCarry(fn.res.query, EndAliases, fn.utc_end)
           ELSE AsUpstream(EndAliases, TRUE)
        /\ IF fn.offset # <<>>
           THEN AllCarry(fn.res.query, OffsetAliases, fn.offset)
           ELSE AsUpstream(OffsetAliases, TRUE)

\* the rewrite met one of its errors: int(offset) raised, fromisoformat
\* raised, or urlparse raised
HitsError ==
    /\ fn.name = "_apply_timeshift_parameters"
    /\ fn.utc_start # <<>> \/ fn.utc_end # <<>> \/ fn.offset # <<>>
    /\ \/ fn.offset # <<>> /\ ~PyInt(fn.offset).ok
       \/ fn.utc_start # <<>> /\ ~IsIso(fn.utc_start)
       \/ ~fn.url.parseable

\* C19: the timeshift rewrite always returns a URL, and whenever it meets an
\* error (an offset that is not an integer, a utc_start that is not an
\* ISO-8601 time, a URL that cannot be parsed) the URL it returns is the
\* upstream URL, unmodified.
C19_ErrorFallsBack ==
    /\ fn.name = "_apply_timeshift_parameters" =>
           DOMAIN fn.res = {"parseable", "path", "query"}
    /\ HitsError => fn.res = fn.url

\* session s has no request in flight: no handler, relay or delayed cleanup
\* of one of its requests is running
Quiet(s) == \A r \in Reqs : th[r].sid = s => th[r].pc = "done"

SlotHeld(s) == gh.acq[s] > gh.rel[s]

Reclaimed(s) == ~conn[s].live /\ ~SlotHeld(s)

\* C20: under fair scheduling of the sweeper, a session whose requests have
\* all ended, whatever they were, and whose state exists or which holds a
\* profile slot (while time can still pass) is eventually deleted with its
\* profile slot released.
C20_IdleEventuallyReclaimed ==
    \A s \in Sessions :
        (/\ Quiet(s)
         /\ conn[s].live \/ SlotHeld(s)
         /\ now < MaxTicks * (MaxAge + 1)) ~> Reclaimed(s)

\* request r acquires a slot in this step (the INCR of line 408 returns)
Acquires(r) == th[r].pc = "incr" /\ th'[r].pc # "incr"

\* request r is refused a slot in this step
RefusedSlot(r) == th[r].pc = "check" /\ th'[r].pc = "done" /\ th'[r].out.status = 429

\* C21: on a profile with max_streams > 0 an acquisition succeeds only when
\* the value returned by the increment does not exceed max_streams (so two
\* concurrent acquisitions never both get the last free slot), and a refused
\* acquisition leaves the counter at its prior value.
C21_IncrementThenCompare ==
    [][\A r \in Reqs :
          /\ (Acquires(r) /\ max_streams(th[r].prof) > 0) =>
                 counter'[th[r].prof] <= max_streams(th[r].prof)
          /\ RefusedSlot(r) => counter' = counter]_vars

\* request r issues its upstream fetch in this step (session.get, line 209)
Fetches(r) == th[r].pc = "fetch" /\ th'[r].pc # "fetch"

\* C22: an upstream fetch is issued for a session only when a profile slot
\* has been acquired for that session before and is held, and a request that
\* is refused a slot ends with 429, no upstream connection and without
\* having created a ConnectionState or a SessionRecord.
C22_AcquireBeforeFetch ==
    [][\A r \in Reqs :
          /\ Fetches(r) => gh.acq[th[r].sid] > gh.rel[th[r].sid]
          /\ RefusedSlot(r) => /\ th'[r].out.upstream = 0
                               /\ conn' = conn
                               /\ sess' = sess]_vars

\* sweeper w starts the cleanup of a session in this step
StartsCleanup(w) == th[w].pc # "cl_read" /\ th'[w].pc = "cl_read"

EndsWithoutTimer(r) ==
    /\ th[r].pc \in {"relay", "dec_unlock", "has_active"}
    /\ th'[r].pc = "done"

\* request r is ending a relay that was not broken by an upstream error
EndingRelay(r) ==
    /\ th[r].pc \in {"relay", "dec_read", "dec_save", "dec_unlock", "has_active"}
    /\ th[r].mode # "error"
    /\ th'[r].mode # "error"

\* C24: when a relay ends, by completion or by client disconnect, and leaves
\* the session without an active stream, a delayed cleanup is scheduled (the
\* request does not just end), and the ConnectionState is not torn down by
\* the ending relay.
C24_IdleSchedulesCleanup ==
    [][\A r \in Reqs :
          /\ EndsWithoutTimer(r) =>
                 \/ ~conn'[th[r].sid].live
                 \/ conn'[th[r].sid].active_streams > 0
          /\ EndingRelay(r) => conn'[th[r].sid].live = conn[th[r].sid].live]_vars

\* the delayed cleanup of request r, whose timer fired with no active
\* stream, finishes in this step
TimerCleanupEnds(r) ==
    /\ th[r].pc \in {"cl_del", "dec_get", "dec_decr"}
    /\ th[r].mode = "disconnect"
    /\ th'[r].pc = "done"

\* C25: when a delayed cleanup timer has fired with active_streams still 0,
\* its cleanup leaves the session without ConnectionState and without
\* SessionRecord, and with its profile slot released.
C25_TimerDeletesSession ==
    [][\A r \in Reqs :
          TimerCleanupEnds(r) =>
              /\ ~conn'[th[r].sid].live
              /\ ~sess'[th[r].sid]
              /\ gh'.rel[th[r].sid] = gh'.acq[th[r].sid]]_vars

\* request r is at a call of _acquire_lock (create_connection,
\* increment_active_streams, or decrement_active_streams at the end of its
\* relay) and the lock of its session is taken
LockTaken(r) ==
    /\ th[r].pc \in {"create_lock", "inc_lock", "relay"}
    /\ lock[th[r].sid]

\* C26: a worker that finds the Distributed Lock of its session taken does
\* not go on: it neither ends its request with an error status nor skips the
\* update the lock guards, it stays where it is until the lock is free.
C26_LockFailureAbsorbed ==
    [][\A r \in Reqs : LockTaken(r) => th'[r].pc = th[r].pc]_vars

\* thread t is between a successful _acquire_lock and the _release_lock
\* of the same call, on session s
InsideLock(t, s) ==
    /\ th[t].sid = s
    /\ th[t].pc \in {"create_get", "create_save", "create_unlock", "inc_read", "inc_save",
                     "inc_unlock", "dec_read", "dec_save", "dec_unlock"}

\* a worker creates or deletes the ConnectionState or the SessionRecord of
\* session s in this step (a key that the store expires is not a worker's
\* deletion)
StructuralChange(s) ==
    /\ now' = now
    /\ conn'[s].live # conn[s].live \/ sess'[s] # sess[s]

\* C27: a worker that creates or deletes the ConnectionState or the
\* SessionRecord of a session holds the session's Distributed Lock while it
\* does so, and the profile counter changes only by one increment or one
\* decrement at a time.
C27_StructuralChangeUnderLock ==
    [][/\ \A s \in Sessions :
             StructuralChange(s) =>
                 /\ lock[s]
                 /\ \E t \in Threads : InsideLock(t, s) /\ th'[t] # th[t]
       /\ \A p \in Profiles : counter'[p] \in {counter[p] - 1, counter[p], counter[p] + 1}]_vars

\* a Range header of the form bytes=<start>-<end>, either number optional
WellFormed(range_header) ==
    /\ StartsWith(range_header, BytesEq)
    /\ HasDash(RemoveAll(range_header, BytesEq))
    /\ LET sp == SplitDash(RemoveAll(range_header, BytesEq))
       IN  /\ sp.start_str = <<>> \/ AllDigits(sp.start_str)
           /\ sp.end_str = <<>> \/ AllDigits(sp.end_str)
           /\ sp.start_str # <<>> \/ sp.end_str # <<>>

\* C28: a Range header that is not of the form bytes=<start>-<end> is
\* handled as no Range: the fetch made for it sends no Range upstream and the
\* response is not a 206.
C28_MalformedIsNoRange ==
    [][\A r \in Reqs :
          ~WellFormed(th[r].hdr) =>
              /\ Fetches(r) => SentRange(th[r].hdr, th[r].st) = <<>>
              /\ th'[r].out.status # 206]_vars

\* the Content-Range for a well-formed Range normalised against the content
\* length: bytes <start>-<end>/<length>
NormalisedContentRange(range_header, content_length) ==
    BytesSp \o RemoveAll(_validate_range_header(range_header, PyInt(content_length).val),
                         BytesEq)
    \o <<"/">> \o content_length

\* C29: a 206 response to a well-formed Range, on a session whose
\* content_length is the length of the resource, carries the Content-Range
\* of the normalised range: its end is at most content_length - 1 and its
\* total is content_length (bytes=1024-4096 on 2048 bytes: bytes
\* 1024-2047/2048).
C29_ContentRangeNormalised ==
    \A r \in Reqs :
        (/\ th[r].out.status = 206
         /\ WellFormed(th[r].hdr)
         /\ th[r].out.content_length = IntToStr(UpstreamLen)) =>
            th[r].out.content_range =
                NormalisedContentRange(th[r].hdr, th[r].out.content_length)

\* the fetch of a full request on a session of unknown content_length
\* succeeds in this step
FullFetchUnknownLength(r) ==
    /\ Fetches(r)
    /\ th'[r].pc = "headers"
    /\ th[r].hdr = NoRange
    /\ th[r].st.content_length = <<>>

\* C30: a full request on a session whose content_length is unknown is
\* preceded by a ranged probe whose Content-Range total is stored: with a
\* provider that serves ranges, the content_length is known (the total
\* length) once the fetch has succeeded.
C30_ProbeLearnsLength ==
    [][\A r \in Reqs :
          FullFetchUnknownLength(r) =>
              conn'[th[r].sid].content_length = IntToStr(UpstreamLen)]_vars

\* the upstream fetch of request r succeeds in this step: the request is
\* served
Served(r) == th[r].pc = "fetch" /\ th'[r].pc = "headers"

\* C31: the request_count of a ConnectionState never decreases from one
\* state to the next, and every request served on the session raises it,
\* whatever the interleaving of get_stream, increment_active_streams and
\* decrement_active_streams.
C31_RequestCountMonotonic ==
    [][/\ \A s \in Sessions :
             (conn[s].live /\ conn'[s].live) =>
                 conn'[s].request_count >= conn[s].request_count
       /\ \A r \in Reqs :
             (Served(r) /\ conn[th[r].sid].live) =>
                 conn'[th[r].sid].request_count > conn[th[r].sid].request_count]_vars

\* no worker thread is inside a handler, a relay, a cleanup or a scan
AllQuiet == \A t \in Threads : th[t].pc \in {"idle", "done"}

\* the live ConnectionStates that reference profile p
StatesOf(p) == {s \in Sessions : conn[s].live /\ conn[s].m3u_profile_id = p}

\* C32: whenever no worker is in the middle of an operation, the counter of
\* every profile equals the number of live ConnectionStates that reference
\* the profile.
C32_CounterEqualsLiveStates ==
    AllQuiet => \A p \in Profiles : counter[p] = Cardinality(StatesOf(p))

\* the threads inside a lock-guarded section for session s
Holders(s) == {t \in Threads : InsideLock(t, s)}

\* C33: at most one worker is inside a lock-guarded section of a session,
\* and the lock key of a session is removed only by a step of the worker
\* that holds it (time does not pass inside a guarded section).
C33_LockMutualExclusion ==
    [][\A s \in Sessions :
          /\ Cardinality(Holders(s)) <= 1
          /\ (lock[s] /\ ~lock'[s]) =>
                 \E t \in Holders(s) : th'[t] # th[t]]_vars

\* the relays in flight on session s
RelaysOn(s) == {r \in Reqs : th[r].sid = s /\ th[r].pc = "relay"}

\* no worker is in the middle of a handler step, an increment, a decrement
\* or a cleanup: every thread is outside a request, relaying, or sleeping
\* in a delayed cleanup
Settled == \A t \in Threads : th[t].pc \in {"idle", "done", "relay", "sleep"}

\* C34: whenever no worker is in the middle of an operation, the
\* active_streams stored for a live session is non-negative and equals the
\* number of relays in flight on the session.
C34_ActiveStreamsCountsRelays ==
    Settled =>
        \A s \in Sessions :
            conn[s].live =>
                /\ conn[s].active_streams >= 0
                /\ conn[s].active_streams = Cardinality(RelaysOn(s))

\* C35: the save that ends get_stream leaves the stored active_streams as
\* it is in the store at that moment: an increment or decrement made by
\* another worker since get_stream read the state is still there.
C35_GetStreamKeepsActiveStreams ==
    [][\A r \in Reqs :
          (Served(r) /\ conn[th[r].sid].live) =>
              conn'[th[r].sid].active_streams = conn[th[r].sid].active_streams]_vars

\* C36: PersistentVODConnection.get_stream terminates: a thread whose
\* upstream fetch failed is never left waiting for the connection's lock,
\* and the lock of a connection is held only by a thread that is inside
\* get_stream and can go on.
C36_GetStreamTerminates ==
    \A r \in Reqs :
        /\ th[r].pc # "p_blocked"
        /\ \A s \in Sessions : ip.pconn[s].lock = r => th[r].pc = "p_fetch"

\* the delayed cleanup of session s closes the connection in this step
TimerTearsDown(s) ==
    /\ th[TimerThreadOf(s)].pc = "c_lock"
    /\ ip.pconn[s].present
    /\ ~ip'.pconn[s].present

\* C37: a delayed cleanup never tears down a session that has a relay in
\* flight: when it closes the upstream session and removes the connection,
\* no request is relaying on the session.
C37_TimerSparesRelays ==
    [][\A s \in Sessions :
          TimerTearsDown(s) =>
              \A r \in Reqs : ~(th[r].sid = s /\ th[r].pc = "p_relay")]_vars

\* thread t is at a step of cleanup_persistent_connection that may lower
\* the profile counter
PLowers(t) == th[t].pc \in {"c_remove", "c_safety"}

\* C38: in the in-process manager the cleanup of a session never lowers the
\* profile counter more often than the creation of the session raised it:
\* at most once for a session that was counted, never for one that the
\* limit check refused, so it never frees a slot held by another session.
C38_CleanupLowersWhatCreationRaised ==
    [][\A t \in Reqs \cup TimerThreads :
          PLowers(t) => gh'.rel[th[t].sid] <= gh'.acq[th[t].sid]]_vars

\* _validate_range_header was applied to a suffix range bytes=-<n>
SuffixRange ==
    /\ fn.name = "_validate_range_header"
    /\ fn.start_str = <<>>
    /\ fn.end_str # <<>>

\* the first bytes of a resource of L bytes up to offset n
FirstBytes(n, L) ==
    BytesEq \o <<"0", "-">> \o NatToStr(IF n < L - 1 THEN n ELSE L - 1)

\* C39: for a suffix range header bytes=-<n> and a known content length L,
\* range validation returns bytes=0-min(n, L-1): the header is read as the
\* first bytes of the resource, not as its last n bytes.
C39_SuffixReadAsPrefix ==
    SuffixRange => fn.res = FirstBytes(DigitsVal(fn.end_str, 0), fn.len)

\* bytes=-499 with L = 1000 came back as bytes=0-499 (the last 499 bytes
\* would be bytes=501-999)
C39_SuffixValidated ==
    /\ Applied(<<>>, <<"4", "9", "9">>, 1000)
    /\ fn.res = <<"b", "y", "t", "e", "s", "=", "0", "-", "4", "9", "9">>

\* a state was stored with to_dict and loaded with from_dict
Loaded == fn.name = "from_dict"

\* C40: storing a connection state with to_dict and loading it with
\* from_dict yields the same session_id, stream_url, headers, final_url,
\* content_length, m3u_profile_id, request_count and active_streams: an
\* unset final_url, content_length or m3u_profile_id is loaded as unset and
\* a set value, profile id 0 included, as that value.
C40_StateRoundTrip ==
    Loaded =>
        /\ fn.res.session_id = fn.state.session_id
        /\ fn.res.stream_url = fn.state.stream_url
        /\ fn.res.headers = fn.state.headers
        /\ fn.res.final_url = fn.state.final_url
        /\ fn.res.content_length = fn.state.content_length
        /\ fn.res.m3u_profile_id = fn.state.m3u_profile_id
        /\ fn.res.request_count = fn.state.request_count
        /\ fn.res.active_streams = fn.state.active_streams

\* a state with profile id 0, two headers and no final_url or content_length
\* went through the hash, where the unset fields are empty strings
C40_ProfileZeroLoaded ==
    /\ Loaded
    /\ fn.state.m3u_profile_id = <<0>>
    /\ fn.state.final_url = NONE
    /\ fn.state.content_length = NONE
    /\ Len(fn.state.headers) = 2
    /\ fn.data.m3u_profile_id = <<"0">>
    /\ fn.data.final_url = <<>>
    /\ fn.res.m3u_profile_id = <<0>>
    /\ fn.res.final_url = NONE

=============================================================================
